---- MODULE Spec2Model ----
(***************************************************************************)
(* Model of the greedy overlap assembler of src/src/tiny_assembler.py      *)
(* (class DNAAssembler).                                                   *)
(*                                                                         *)
(* A sequence (a Python str) is a TLA+ sequence of character code points,  *)
(* so that Python's string order is the lexicographic order on code        *)
(* points.  A call's outcome is a record [exc, val]: exc = "none" and val  *)
(* the returned value, or exc the name of the raised exception.            *)
(*                                                                         *)
(* Spec     : one run of assemble_helper over a pool of reads.             *)
(* SpecPure : one call of score, find_best_offset or consensus on          *)
(*            arguments drawn from bounded sets.                           *)
(***************************************************************************)
EXTENDS Integers, Sequences, FiniteSets

VARIABLES
    reads,       \* self.reads, the pool given to __init__
    sequence,    \* assemble's parameter `sequence` (the current consensus)
    others,      \* assemble's parameter `others` (the remaining candidates)
    best_match,  \* outcome of the last find_best_match call of assemble
    result,      \* outcome of assemble_helper once the run has ended
    merges,      \* number of find_best_match + consensus steps completed
    pc,          \* "start", "assemble", "done", "failed" ("idle" in SpecPure)
    argSeq1,     \* SpecPure: first sequence argument of the call
    argSeq2,     \* SpecPure: second sequence argument of the call
    argOffset,   \* SpecPure: offset argument of the call
    argScore,    \* SpecPure: score argument of consensus
    call,        \* SpecPure: "none" before the call, then the function called
    ret          \* SpecPure: outcome of the call

vars == <<reads, sequence, others, best_match, result, merges, pc,
          argSeq1, argSeq2, argOffset, argScore, call, ret>>

reducerVars == <<reads, sequence, others, best_match, result, merges, pc>>
pureVars == <<argSeq1, argSeq2, argOffset, argScore, call, ret>>

----------------------------------------------------------------------------
(* Bounds of the model. *)

\* longest sequence passed to score, find_best_offset and consensus
MaxLen == 3
\* longest read of a pool
MaxReadLen == 2
\* largest pool
MaxReads == 3

\* code points of 'A' and 'C'
Alphabet == {65, 67}

SeqsUpTo(n) == UNION {[1..k -> Alphabet] : k \in 0..n}

Pools == UNION {[1..k -> SeqsUpTo(MaxReadLen)] : k \in 0..MaxReads}

\* offsets tried by SpecPure: the scanned range of any pair and one beyond
Offsets == (0 - MaxLen - 1)..(MaxLen + 1)

----------------------------------------------------------------------------
(* Python built-ins used by the code. *)

Max2(x, y) == IF x >= y THEN x ELSE y

Min2(x, y) == IF x <= y THEN x ELSE y

Min3(x, y, z) == Min2(x, Min2(y, z))

Returned(v) == [exc |-> "none", val |-> v]

Raised(e) == [exc |-> e, val |-> <<>>]

\* a slice index of a str of length n: negative counts from the end, then clamped
SliceIndex(k, n) == IF k < 0 THEN Max2(k + n, 0) ELSE Min2(k, n)

\* s[i:j]
Slice(s, i, j) ==
    LET lo == SliceIndex(i, Len(s))
        hi == SliceIndex(j, Len(s))
    IN  IF lo >= hi THEN <<>> ELSE SubSeq(s, lo + 1, hi)

\* s[i:]
SliceFrom(s, i) == Slice(s, i, Len(s))

\* s < t on str: the first differing character decides, a proper prefix is smaller
StrLess(s, t) ==
    LET n == Min2(Len(s), Len(t))
        diff == {i \in 1..n : s[i] # t[i]}
    IN  IF diff = {}
        THEN Len(s) < Len(t)
        ELSE LET i == CHOOSE d \in diff : \A e \in diff : d <= e
             IN  s[i] < t[i]

\* t < u on the tuples (score, offset, sequence2, sequence1)
TupleLess(t, u) ==
    \/ t[1] < u[1]
    \/ /\ t[1] = u[1]
       /\ \/ t[2] < u[2]
          \/ /\ t[2] = u[2]
             /\ \/ StrLess(t[3], u[3])
                \/ /\ t[3] = u[3]
                   /\ StrLess(t[4], u[4])

RECURSIVE MaxFrom(_, _, _)
MaxFrom(items, i, best) ==
    IF i > Len(items)
    THEN best
    ELSE MaxFrom(items, i + 1, IF TupleLess(best, items[i]) THEN items[i] ELSE best)

\* max(iterable): the first greatest item; ValueError on an empty iterable
PyMax(items) ==
    IF items = <<>>
    THEN Raised("ValueError")
    ELSE Returned(MaxFrom(items, 2, items[1]))

----------------------------------------------------------------------------
(* The methods of DNAAssembler. *)

\* score as the length of the compared range less the mismatches in it, the
\* range's length not clamped at 0
ScoreUnclamped(sequence1, sequence2, offset) ==
    LET lo == Max2(0 - offset, 0)
        hi == Min3(Len(sequence2) - offset, Len(sequence2), Len(sequence1) - offset)
    IN  (hi - lo) - Cardinality({position \in lo..(hi - 1) :
                        sequence2[position + 1] # sequence1[position + offset + 1]})

Score(sequence1, sequence2, offset) ==
    LET lo == Max2(0 - offset, 0)
        hi == Min3(Len(sequence2) - offset, Len(sequence2), Len(sequence1) - offset)
    IN  Cardinality({position \in lo..(hi - 1) :
                        sequence2[position + 1] = sequence1[position + offset + 1]})

\* find_best_offset with the maximum taken on the score alone: the first
\* (smallest) of the best-scoring offsets wins
FindBestOffsetScoreKey(sequence1, sequence2) ==
    LET first == 1 - Len(sequence2)
        n == Max2(Len(sequence1) - first, 0)
        best == CHOOSE b \in 0..(Len(sequence1) + Len(sequence2)) :
                    /\ \E k \in 1..n : Score(sequence1, sequence2, first + k - 1) = b
                    /\ \A k \in 1..n : Score(sequence1, sequence2, first + k - 1) <= b
        k0 == CHOOSE k \in 1..n :
                    /\ Score(sequence1, sequence2, first + k - 1) = best
                    /\ \A j \in 1..(k - 1) : Score(sequence1, sequence2, first + j - 1) < best
    IN  IF n = 0
        THEN Raised("ValueError")
        ELSE Returned(<<best, first + k0 - 1, sequence2, sequence1>>)

FindBestOffset(sequence1, sequence2) ==
    LET first == 1 - Len(sequence2)
        n == Max2(Len(sequence1) - first, 0)
    IN  PyMax([k \in 1..n |->
                <<Score(sequence1, sequence2, first + k - 1), first + k - 1,
                  sequence2, sequence1>>])

\* find_best_match without the `if sequence2 != sequence` filter
FindBestMatchNoExclusion(seq, cands) ==
    LET found == [i \in 1..Len(cands) |-> FindBestOffset(seq, cands[i])]
    IN  IF \E i \in 1..Len(found) : found[i].exc # "none"
        THEN Raised("ValueError")
        ELSE PyMax([i \in 1..Len(found) |-> found[i].val])

FindBestMatch(seq, cands) ==
    LET eligible == SelectSeq(cands, LAMBDA sequence2 : sequence2 # seq)
        found == [i \in 1..Len(eligible) |-> FindBestOffset(seq, eligible[i])]
    IN  IF \E i \in 1..Len(found) : found[i].exc # "none"
        THEN Raised("ValueError")
        ELSE PyMax([i \in 1..Len(found) |-> found[i].val])

\* consensus with sequence2[0:offset], the prefix's end not clamped at 0
ConsensusPrefixUnclamped(score, offset, sequence1, sequence2) ==
    Slice(sequence2, 0, offset) \o sequence1
        \o SliceFrom(sequence2, Len(sequence1) + offset)

\* consensus with the suffix taken from len(sequence1), the offset forgotten
ConsensusSuffixNoOffset(score, offset, sequence1, sequence2) ==
    Slice(sequence2, 0, Max2(0, offset)) \o sequence1
        \o SliceFrom(sequence2, Len(sequence1))

Consensus(score, offset, sequence1, sequence2) ==
    Slice(sequence2, 0, Max2(0, offset)) \o sequence1
        \o SliceFrom(sequence2, Len(sequence1) + offset)

\* self.consensus(*best_match)
ConsensusOf(m) == Consensus(m[1], m[2], m[3], m[4])

\* the filter comparing with best_match[3], the base sequence
WithoutMatchedWrongIndex(cands, m) == SelectSeq(cands, LAMBDA y : y # m[4])

\* the filter replaced by list.remove: only the first equal element goes
WithoutMatchedFirstOnly(cands, m) ==
    LET hits == {i \in 1..Len(cands) : cands[i] = m[3]}
        i0 == CHOOSE i \in hits : \A j \in hits : i <= j
    IN  IF hits = {}
        THEN cands
        ELSE SubSeq(cands, 1, i0 - 1) \o SubSeq(cands, i0 + 1, Len(cands))

\* [y for y in others if y != best_match[2]]
WithoutMatched(cands, m) == SelectSeq(cands, LAMBDA y : y # m[3])

----------------------------------------------------------------------------
(* Spec: one run of assemble_helper. *)

Init ==
    /\ reads \in Pools
    /\ sequence = <<>>
    /\ others = <<>>
    /\ best_match = Raised("unset")
    /\ result = Raised("unset")
    /\ merges = 0
    /\ pc = "start"
    /\ argSeq1 = <<>>
    /\ argSeq2 = <<>>
    /\ argOffset = 0
    /\ argScore = 0
    /\ call = "idle"
    /\ ret = Raised("unset")

\* assemble_helper: self.assemble(self.reads[0], self.reads[1:])
AssembleHelper ==
    /\ pc = "start"
    /\ IF Len(reads) = 0
       THEN /\ pc' = "failed"
            /\ result' = Raised("IndexError")
            /\ UNCHANGED <<sequence, others>>
       ELSE /\ pc' = "assemble"
            /\ sequence' = reads[1]
            /\ others' = SliceFrom(reads, 1)
            /\ UNCHANGED result
    /\ UNCHANGED <<reads, best_match, merges, pureVars>>

\* assemble with len(others) == 1: return the consensus of the best match
AssembleLast ==
    /\ pc = "assemble"
    /\ Len(others) = 1
    /\ best_match' = FindBestMatch(sequence, others)
    /\ IF best_match'.exc # "none"
       THEN /\ pc' = "failed"
            /\ result' = best_match'
            /\ UNCHANGED merges
       ELSE /\ pc' = "done"
            /\ result' = Returned(ConsensusOf(best_match'.val))
            /\ merges' = merges + 1
    /\ UNCHANGED <<reads, sequence, others, pureVars>>

\* assemble otherwise: recurse on the consensus and the filtered candidates
AssembleRecurse ==
    /\ pc = "assemble"
    /\ Len(others) # 1
    /\ best_match' = FindBestMatch(sequence, others)
    /\ IF best_match'.exc # "none"
       THEN /\ pc' = "failed"
            /\ result' = best_match'
            /\ UNCHANGED <<sequence, others, merges>>
       ELSE /\ pc' = "assemble"
            /\ sequence' = ConsensusOf(best_match'.val)
            /\ others' = WithoutMatched(others, best_match'.val)
            /\ merges' = merges + 1
            /\ UNCHANGED result
    /\ UNCHANGED <<reads, pureVars>>

Next == AssembleHelper \/ AssembleLast \/ AssembleRecurse

Spec == Init /\ [][Next]_vars

----------------------------------------------------------------------------
(* SpecPure: one call of a method on bounded arguments. *)

InitPure ==
    /\ reads = <<>>
    /\ sequence = <<>>
    /\ others = <<>>
    /\ best_match = Raised("unset")
    /\ result = Raised("unset")
    /\ merges = 0
    /\ pc = "idle"
    /\ argSeq1 \in SeqsUpTo(MaxLen)
    /\ argSeq2 \in SeqsUpTo(MaxLen)
    /\ argOffset \in Offsets
    /\ argScore \in 0..MaxLen
    /\ call = "none"
    /\ ret = Raised("unset")

ScoreCall ==
    /\ call = "none"
    /\ call' = "score"
    /\ ret' = Returned(Score(argSeq1, argSeq2, argOffset))
    /\ UNCHANGED <<argSeq1, argSeq2, argOffset, argScore, reducerVars>>

FindBestOffsetCall ==
    /\ call = "none"
    /\ call' = "find_best_offset"
    /\ ret' = FindBestOffset(argSeq1, argSeq2)
    /\ UNCHANGED <<argSeq1, argSeq2, argOffset, argScore, reducerVars>>

ConsensusCall ==
    /\ call = "none"
    /\ call' = "consensus"
    /\ ret' = Returned(Consensus(argScore, argOffset, argSeq1, argSeq2))
    /\ UNCHANGED <<argSeq1, argSeq2, argOffset, argScore, reducerVars>>

NextPure == ScoreCall \/ FindBestOffsetCall \/ ConsensusCall

SpecPure == InitPure /\ [][NextPure]_vars

----------------------------------------------------------------------------
(* Properties. *)

Ended == pc \in {"done", "failed"}

\* the offsets find_best_offset(A, B) scans
ScanRange(A, B) == (1 - Len(B))..(Len(A) - 1)

\* positions of seq2, its index 0 on seq1's index offset, where both sequences
\* are defined and hold the same symbol
AlignedMatches(seq1, seq2, offset) ==
    {p \in 0..(Len(seq2) - 1) :
        /\ 0 <= p + offset
        /\ p + offset < Len(seq1)
        /\ seq2[p + 1] = seq1[p + offset + 1]}

PairwiseDistinct(pool) ==
    \A i, j \in 1..Len(pool) : i # j => pool[i] # pool[j]

NoEmptyRead(pool) == \A i \in 1..Len(pool) : pool[i] # <<>>

\* C1: assembling a pool of exactly one read completes without error and
\* returns that read unchanged (stated for a non-empty read).
C1_SingleReadReturned ==
    (Len(reads) = 1 /\ NoEmptyRead(reads) /\ Ended) =>
        (pc = "done" /\ result = Returned(reads[1]))

\* C2: score(seq1, seq2, offset) is the number of positions p of seq2 with
\* p + offset a position of seq1 and seq2[p] = seq1[p + offset].
C2_ScoreCountsAlignedMatches ==
    call = "score" =>
        ret = Returned(Cardinality(AlignedMatches(argSeq1, argSeq2, argOffset)))

\* the greatest score(A, B, o) over the scanned offsets o
BestScore(A, B) ==
    CHOOSE b \in {Score(A, B, o) : o \in ScanRange(A, B)} :
        \A o \in ScanRange(A, B) : Score(A, B, o) <= b

\* the largest scanned offset whose score is the greatest
LargestBestOffset(A, B) ==
    CHOOSE o \in ScanRange(A, B) :
        /\ Score(A, B, o) = BestScore(A, B)
        /\ \A q \in ScanRange(A, B) : Score(A, B, q) = BestScore(A, B) => q <= o

\* C3: for non-empty A, B, find_best_offset(A, B) returns (score, offset, B, A)
\* with score the greatest score(A, B, o) over o in [1 - len(B), len(A) - 1]
\* and offset the largest o of that range attaining it.
C3_BestOffsetIsMaxScoreLargestOffset ==
    (call = "find_best_offset" /\ argSeq1 # <<>> /\ argSeq2 # <<>>) =>
        ret = Returned(<<BestScore(argSeq1, argSeq2),
                         LargestBestOffset(argSeq1, argSeq2), argSeq2, argSeq1>>)

\* C3 witness: a call on non-empty sequences where two scanned offsets tie on
\* a positive best score.
C3_Witness ==
    /\ call = "find_best_offset"
    /\ argSeq1 # <<>>
    /\ argSeq2 # <<>>
    /\ BestScore(argSeq1, argSeq2) > 0
    /\ \E o \in ScanRange(argSeq1, argSeq2) :
          /\ o < LargestBestOffset(argSeq1, argSeq2)
          /\ Score(argSeq1, argSeq2, o) = BestScore(argSeq1, argSeq2)

\* C5: find_best_offset with an empty argument does not raise and returns a
\* Match of score 0 and offset 0.
C5_EmptyArgumentGivesZeroMatch ==
    (call = "find_best_offset" /\ (argSeq1 = <<>> \/ argSeq2 = <<>>)) =>
        (ret.exc = "none" /\ ret.val[1] = 0 /\ ret.val[2] = 0)

\* C7: for non-empty A (consensus's seq1) and B (its seq2) and an offset off
\* with 1 - len(A) <= off <= len(B) - 1, consensus(s, off, A, B) returns a
\* sequence of length max(0, off) + len(A) + max(0, len(B) - (len(A) + off)).
C7_ConsensusLength ==
    (/\ call = "consensus"
     /\ argSeq1 # <<>>
     /\ argSeq2 # <<>>
     /\ 1 - Len(argSeq1) <= argOffset
     /\ argOffset <= Len(argSeq2) - 1) =>
        /\ ret.exc = "none"
        /\ Len(ret.val) = Max2(0, argOffset) + Len(argSeq1)
                            + Max2(0, Len(argSeq2) - (Len(argSeq1) + argOffset))

\* C7 witness: a consensus call on such arguments whose suffix slice starts
\* past the end of seq2, after a negative offset was clamped in the prefix.
C7_Witness ==
    /\ call = "consensus"
    /\ argSeq1 # <<>>
    /\ argSeq2 # <<>>
    /\ 1 - Len(argSeq1) <= argOffset
    /\ argOffset < 0
    /\ Len(argSeq1) + argOffset > Len(argSeq2)
    /\ ret = Returned(argSeq1)

\* C9: for every offset of the scanned range, 0 <= score(A, B, offset) <=
\* min(len(A), len(B)), and so is the score of a Match find_best_offset returns.
C9_ScoreBounds ==
    /\ (call = "score" /\ argOffset \in ScanRange(argSeq1, argSeq2)) =>
          (0 <= ret.val /\ ret.val <= Min2(Len(argSeq1), Len(argSeq2)))
    /\ (call = "find_best_offset" /\ ret.exc = "none") =>
          (0 <= ret.val[1] /\ ret.val[1] <= Min2(Len(argSeq1), Len(argSeq2)))

\* C9 witness: a score call at a scanned offset that attains the upper bound
\* on sequences of different lengths.
C9_Witness ==
    /\ call = "score"
    /\ argOffset \in ScanRange(argSeq1, argSeq2)
    /\ Len(argSeq1) > Len(argSeq2)
    /\ Len(argSeq2) > 1
    /\ ret = Returned(Len(argSeq2))

\* the reduction has taken exactly one candidate per merge step so far, and
\* ends with a consensus after len(reads) - 1 merge steps
OneCandidatePerStep ==
    /\ pc = "assemble" => Len(others) = Len(reads) - 1 - merges
    /\ Ended => (pc = "done" /\ result.exc = "none" /\ merges = Len(reads) - 1)

Eligible == {i \in 1..Len(others) : others[i] # sequence}

\* C6: find_best_match ignores every candidate equal by value to the current
\* sequence; when none remains the call ends in an error and returns no Match,
\* and the run fails as a whole with no consensus returned.
C6_NoCandidatesFailsRun ==
    [][pc = "assemble" =>
        /\ Eligible = {} =>
              (best_match'.exc # "none" /\ pc' = "failed" /\ result'.exc # "none")
        /\ best_match'.exc = "none" =>
              /\ best_match'.val[3] # sequence
              /\ best_match'.val[4] = sequence
              /\ \E i \in Eligible : others[i] = best_match'.val[3]
              /\ \A i \in Eligible :
                    ~TupleLess(best_match'.val, FindBestOffset(sequence, others[i]).val)
      ]_vars

\* C6 witness: a run has failed in find_best_match on candidates that are all
\* equal by value to the current sequence.
C6_Witness ==
    /\ pc = "failed"
    /\ Len(others) >= 1
    /\ sequence # <<>>
    /\ Eligible = {}
    /\ best_match.exc = "ValueError"
    /\ result.exc = "ValueError"

\* the consensus the reducer built from its last Match
Built == IF pc = "done" THEN result.val ELSE sequence

MatchBuilt == best_match.exc = "none" /\ pc \in {"assemble", "done"}

\* the length as C8 states it: base = m[4], matched = m[3]
LengthBaseFirst(m) ==
    Max2(0, m[2]) + Len(m[4]) + Max2(0, Len(m[3]) - (Len(m[4]) + m[2]))

\* the length with the matched sequence whole and the base's flanks around it
LengthMatchedFirst(m) ==
    Max2(0, m[2]) + Len(m[3]) + Max2(0, Len(m[4]) - (Len(m[3]) + m[2]))

\* C8 as stated: the consensus built from a Match (score, offset, matched,
\* base) has length max(0, offset) + len(base)
\* + max(0, len(matched) - (len(base) + offset)) (stated for non-empty reads).
C8_LengthBaseFirst ==
    (MatchBuilt /\ NoEmptyRead(reads)) =>
        Len(Built) = LengthBaseFirst(best_match.val)

\* C8 amended: the consensus built from a Match (score, offset, matched, base)
\* has length max(0, offset) + len(matched)
\* + max(0, len(base) - (len(matched) + offset)).
C8_LengthMatchedFirst ==
    MatchBuilt => Len(Built) = LengthMatchedFirst(best_match.val)

\* C8 witness: a consensus was built from a Match on which the two lengths
\* differ.
C8_Witness ==
    /\ MatchBuilt
    /\ best_match.val[3] # <<>>
    /\ best_match.val[4] # <<>>
    /\ LengthBaseFirst(best_match.val) # LengthMatchedFirst(best_match.val)

\* number of the first i remaining candidates equal by value to matched
CopiesUpTo(i, matched) == Cardinality({j \in 1..i : others[j] = matched})

====
